---- MODULE Spec2Model ----
(***************************************************************************)
(* The V.17 modem transmitter of spandsp (src/libs/spandsp/src/v17tx.c) as  *)
(* a state machine.  The variable s is the v17_tx_state_t instance; h holds *)
(* observations of one run (since the last successful restart): the events  *)
(* delivered to the status handler, the invocations of the bit sources and  *)
(* the bauds pulled, by kind; len and ret are the argument and the result   *)
(* of the latest v17_tx call, rc is what the latest call of v17_tx_init or  *)
(* v17_tx_restart returned.                                                 *)
(***************************************************************************)
EXTENDS Integers, Sequences, FiniteSets, TLC

VARIABLES s, h, len, ret, rc

vars == <<s, h, len, ret, rc>>

(***************************************************************************)
(* Bounds of the model.                                                     *)
(***************************************************************************)
\* The number of samples an application asks for in one v17_tx call.
MaxLen == 23
\* The number of data bits the application has to send in one run.
MaxBits == 27

Lens == {0, MaxLen}
\* The lengths of the messages an application sends, in bits: short ones and
\* ones that last for a whole v17_tx call and more.
MessageLengths == (0..5) \cup ((MaxBits - 2)..MaxBits)

(***************************************************************************)
(* Program constants.                                                       *)
(***************************************************************************)
V17_TRAINING_SEG_TEP_A == 0
V17_TRAINING_SEG_TEP_B == V17_TRAINING_SEG_TEP_A + 480
V17_TRAINING_SEG_1 == V17_TRAINING_SEG_TEP_B + 48
V17_TRAINING_SEG_2 == V17_TRAINING_SEG_1 + 256
V17_TRAINING_SEG_3 == V17_TRAINING_SEG_2 + 2976
V17_TRAINING_SEG_4 == V17_TRAINING_SEG_3 + 64
V17_TRAINING_SHORT_SEG_4 == V17_TRAINING_SEG_2 + 38
V17_TRAINING_END == V17_TRAINING_SEG_4 + 48
V17_TRAINING_SHUTDOWN_A == V17_TRAINING_END + 32
V17_TRAINING_SHUTDOWN_END == V17_TRAINING_SHUTDOWN_A + 48

\* 0x8880
V17_BRIDGE_WORD == 34944
\* scramble_reg and carrier_phase are uint32_t: a 32 bit word is kept as its two
\* 16 bit halves, <<high, low>>.
Half == 65536
\* 0x2ECDD5, the scrambler register after a restart
ScrambleSeed == <<46, 52693>>

\* The length of the pulse shaping filter, in bauds (v17tx_floating_rrc.h).
V17_TX_FILTER_STEPS == 9
\* The end-of-data value a bit source returns in place of a bit (spandsp/async.h).
SIG_STATUS_END_OF_DATA == -7
\* The event passed to the status handler when the shutdown sequence is over.
SIG_STATUS_SHUTDOWN_COMPLETE == -10
\* dds_phase_ratef(CARRIER_NOMINAL_FREQ): 1800 Hz at 8000 samples/s, as a 32 bit
\* phase step (966367616)
CarrierPhaseRate == <<14745, 39296>>

NULL == "NULL"
\* What a call of v17_tx_init (the instance, "s", or NULL) or of v17_tx_restart
\* (0 or -1) returned.
Returned(call, value) == <<call, value>>
Failures == {Returned("v17_tx_restart", -1), Returned("v17_tx_init", NULL)}
fake_get_bit == "fake_get_bit"

BitRates == {7200, 9600, 12000, 14400}
\* The bit rates the application passes: one that is supported, one that is not.
AppBitRates == {7200, 4800}
\* The application's bit sources and status handlers, each with its user data.
GetBits == {<<"get_bit_1", "user_1">>, <<"get_bit_2", "user_2">>}
Handlers == {<<NULL, NULL>>, <<"handler_1", "user_1">>}
\* The transmit power the application sets, in dBm0.
Powers == {-14}

(***************************************************************************)
(* Bit operations on naturals, as C's on non-negative ints.                 *)
(***************************************************************************)
RECURSIVE BitXor(_, _)
BitXor(a, b) ==
    IF a = 0 THEN b
    ELSE IF b = 0 THEN a
    ELSE ((a + b) % 2) + 2 * BitXor(a \div 2, b \div 2)

RECURSIVE BitAnd(_, _)
BitAnd(a, b) ==
    IF a = 0 \/ b = 0 THEN 0
    ELSE ((a % 2) * (b % 2)) + 2 * BitAnd(a \div 2, b \div 2)

RECURSIVE BitOr(_, _)
BitOr(a, b) ==
    IF a = 0 THEN b
    ELSE IF b = 0 THEN a
    ELSE (IF (a % 2) + (b % 2) > 0 THEN 1 ELSE 0) + 2 * BitOr(a \div 2, b \div 2)

Pow2(n) == 2 ^ n
Shr(a, n) == a \div Pow2(n)

\* (w << 1) | bit and a + b, modulo 2^32
Shl1Or(w, bit) == <<(w[1] * 2 + w[2] \div (Half \div 2)) % Half, (w[2] * 2 + bit) % Half>>
Add32(a, b) == <<(a[1] + b[1] + (a[2] + b[2]) \div Half) % Half, (a[2] + b[2]) % Half>>
\* bit n of w, for n >= 16
HighBit(w, n) == Shr(w[1], n - 16) % 2

(***************************************************************************)
(* Constellation points, by table and index; the zero point is also what a  *)
(* cleared filter buffer holds.                                             *)
(***************************************************************************)
zero == <<"zero", 0>>
v17_abcd_constellation(i) == <<"v17_abcd_constellation", i>>


(***************************************************************************)
(* The observations of one run.                                             *)
(***************************************************************************)
Kinds == {"tep", "silence", "seg1", "seg2", "bridge", "ones", "data",
          "shutdown_ones", "shutdown_zero"}

NoObservations(tep) ==
    [ tep        |-> tep,     \* the run began with the echo protection tone
      baud_no    |-> 0,       \* bauds pulled
      status     |-> << >>,   \* events delivered to the status handler, each with
                              \* the training_step and the baud of its delivery
      dropped    |-> 0,       \* events not delivered for want of a handler
      src_calls  |-> 0,       \* invocations of the application's bit source
      fake_calls |-> 0,       \* invocations of fake_get_bit
      bits_got   |-> 0,       \* data bits the application's bit source returned
      nb         |-> [k \in Kinds |-> 0],   \* bauds pulled, by kind
      last       |-> "none",  \* the kind of the latest baud
      eod_baud   |-> 0,       \* the baud in which end of data came
      eod_i      |-> -1,      \* the bit of its symbol at which end of data came
      eod_in     |-> << >>,   \* the bits of that symbol, as given to the scrambler
      over       |-> 0,       \* bauds pulled at or after V17_TRAINING_SHUTDOWN_END
      recent     |-> [i \in 1..V17_TX_FILTER_STEPS |-> zero],
                              \* the latest bauds getbaud returned, the newest last
      samples    |-> 0,       \* samples generated
      window     |-> << >>,   \* for each of the latest 10 samples, the newest
                              \* last: whether a baud was pulled for it
      phases     |-> {} ]     \* the values of baud_phase samples were filtered with

\* One baud of the given kind was pulled and getbaud returns pt.
Baud(m, kind, pt) ==
    [m EXCEPT !.pt = pt,
              !.h.nb[kind] = @ + 1,
              !.h.last = kind,
              !.h.recent = Append(Tail(@), pt)]

(***************************************************************************)
(* scramble: the register is shifted left by one, the new bit is            *)
(* in ^ reg[17] ^ reg[22].  Only bit 0 of each operand reaches the result.  *)
(***************************************************************************)
\* As scramble, but with the register shifted by two.
scramble_by_2(reg, in_bit) ==
    LET out_bit == ((in_bit % 2) + HighBit(reg, 17) + HighBit(reg, 22)) % 2
    IN  [reg |-> Shl1Or(Shl1Or(reg, out_bit), out_bit), out |-> out_bit]

scramble(reg, in_bit) ==
    LET out_bit == ((in_bit % 2) + HighBit(reg, 17) + HighBit(reg, 22)) % 2
    IN  [reg |-> Shl1Or(reg, out_bit), out |-> out_bit]

cdba_to_abcd == <<2, 3, 1, 0>>
dibit_to_step == <<1, 0, 2, 3>>

\* As training_get, but with segment 1 ending one baud early.
training_get_short_seg1(m) ==
    LET step == m.s.training_step + 1
        m1   == [m EXCEPT !.s.training_step = step]
    IN  IF step <= V17_TRAINING_SEG_3
        THEN IF step < V17_TRAINING_SEG_2
             THEN IF step <= V17_TRAINING_SEG_TEP_B
                  THEN Baud(m1, "tep", v17_abcd_constellation(0))
                  ELSE IF step <= V17_TRAINING_SEG_1
                  THEN Baud(m1, "silence", zero)
                  ELSE Baud(m1, "seg1", v17_abcd_constellation(BitXor(step % 2, 1)))
             ELSE LET r1   == scramble(m.s.scramble_reg, 1)
                      r2   == scramble(r1.reg, 1)
                      bits == BitOr(r1.out * 2, r2.out)
                      cs   == cdba_to_abcd[bits + 1]
                      jump == m.s.short_train /\ step = V17_TRAINING_SHORT_SEG_4
                      m2   == [m1 EXCEPT !.s.scramble_reg = r2.reg,
                                         !.s.constellation_state = cs,
                                         !.s.training_step =
                                             IF jump THEN V17_TRAINING_SEG_4 ELSE step]
                  IN  Baud(m2, "seg2", v17_abcd_constellation(cs))
        ELSE LET shift == ((step - V17_TRAINING_SEG_3 - 1) % 8) * 2
                 r1    == scramble(m.s.scramble_reg, Shr(V17_BRIDGE_WORD, shift))
                 r2    == scramble(r1.reg, Shr(V17_BRIDGE_WORD, shift + 1))
                 bits  == BitOr(r1.out * 2, r2.out)
                 cs    == (m.s.constellation_state + dibit_to_step[bits + 1]) % 4
                 m2    == [m1 EXCEPT !.s.scramble_reg = r2.reg,
                                     !.s.constellation_state = cs]
             IN  Baud(m2, "bridge", v17_abcd_constellation(cs))

\* As training_get, but without the jump of short training.
training_get_no_jump(m) ==
    LET step == m.s.training_step + 1
        m1   == [m EXCEPT !.s.training_step = step]
    IN  IF step <= V17_TRAINING_SEG_3
        THEN IF step <= V17_TRAINING_SEG_2
             THEN IF step <= V17_TRAINING_SEG_TEP_B
                  THEN Baud(m1, "tep", v17_abcd_constellation(0))
                  ELSE IF step <= V17_TRAINING_SEG_1
                  THEN Baud(m1, "silence", zero)
                  ELSE Baud(m1, "seg1", v17_abcd_constellation(BitXor(step % 2, 1)))
             ELSE LET r1   == scramble(m.s.scramble_reg, 1)
                      r2   == scramble(r1.reg, 1)
                      bits == BitOr(r1.out * 2, r2.out)
                      cs   == cdba_to_abcd[bits + 1]
                      jump == FALSE
                      m2   == [m1 EXCEPT !.s.scramble_reg = r2.reg,
                                         !.s.constellation_state = cs,
                                         !.s.training_step =
                                             IF jump THEN V17_TRAINING_SEG_4 ELSE step]
                  IN  Baud(m2, "seg2", v17_abcd_constellation(cs))
        ELSE LET shift == ((step - V17_TRAINING_SEG_3 - 1) % 8) * 2
                 r1    == scramble(m.s.scramble_reg, Shr(V17_BRIDGE_WORD, shift))
                 r2    == scramble(r1.reg, Shr(V17_BRIDGE_WORD, shift + 1))
                 bits  == BitOr(r1.out * 2, r2.out)
                 cs    == (m.s.constellation_state + dibit_to_step[bits + 1]) % 4
                 m2    == [m1 EXCEPT !.s.scramble_reg = r2.reg,
                                     !.s.constellation_state = cs]
             IN  Baud(m2, "bridge", v17_abcd_constellation(cs))

(***************************************************************************)
(* training_get: one baud of the training sequence before segment 4.        *)
(***************************************************************************)
training_get(m) ==
    LET step == m.s.training_step + 1
        m1   == [m EXCEPT !.s.training_step = step]
    IN  IF step <= V17_TRAINING_SEG_3
        THEN IF step <= V17_TRAINING_SEG_2
             THEN IF step <= V17_TRAINING_SEG_TEP_B
                  THEN Baud(m1, "tep", v17_abcd_constellation(0))
                  ELSE IF step <= V17_TRAINING_SEG_1
                  THEN Baud(m1, "silence", zero)
                  ELSE Baud(m1, "seg1", v17_abcd_constellation(BitXor(step % 2, 1)))
             ELSE LET r1   == scramble(m.s.scramble_reg, 1)
                      r2   == scramble(r1.reg, 1)
                      bits == BitOr(r1.out * 2, r2.out)
                      cs   == cdba_to_abcd[bits + 1]
                      jump == m.s.short_train /\ step = V17_TRAINING_SHORT_SEG_4
                      m2   == [m1 EXCEPT !.s.scramble_reg = r2.reg,
                                         !.s.constellation_state = cs,
                                         !.s.training_step =
                                             IF jump THEN V17_TRAINING_SEG_4 ELSE step]
                  IN  Baud(m2, "seg2", v17_abcd_constellation(cs))
        ELSE LET shift == ((step - V17_TRAINING_SEG_3 - 1) % 8) * 2
                 r1    == scramble(m.s.scramble_reg, Shr(V17_BRIDGE_WORD, shift))
                 r2    == scramble(r1.reg, Shr(V17_BRIDGE_WORD, shift + 1))
                 bits  == BitOr(r1.out * 2, r2.out)
                 cs    == (m.s.constellation_state + dibit_to_step[bits + 1]) % 4
                 m2    == [m1 EXCEPT !.s.scramble_reg = r2.reg,
                                     !.s.constellation_state = cs]
             IN  Baud(m2, "bridge", v17_abcd_constellation(cs))

(***************************************************************************)
(* diff_and_convolutional_encode: the new diff and convolution and the      *)
(* index of the symbol.                                                     *)
(***************************************************************************)
diff_code == <<0, 1, 2, 3, 1, 2, 3, 0, 2, 3, 0, 1, 3, 0, 1, 2>>

\* As diff_and_convolutional_encode, but with the old convolution shifted into
\* the new one whole, not only its low bit.
diff_and_convolutional_encode_unmasked(diff0, convolution0, q) ==
    LET diff  == diff_code[BitOr((q % 4) * 4, diff0) + 1]
        y2    == Shr(diff, 1)
        y1    == diff
        this2 == BitXor(BitXor(BitXor(y2, y1), Shr(convolution0, 2)),
                        BitAnd(BitXor(y2, Shr(convolution0, 1)), convolution0))
        this1 == BitXor(BitXor(y2, Shr(convolution0, 1)), BitAnd(y1, convolution0))
        conv  == BitOr(BitOr(convolution0 * 4, (this2 % 2) * 2), this1 % 2)
    IN  [diff |-> diff,
         convolution |-> conv,
         index |-> BitOr(BitOr(BitAnd(q * 2, 120), diff * 2), Shr(conv, 2) % 2)]

diff_and_convolutional_encode(diff0, convolution0, q) ==
    LET diff  == diff_code[BitOr((q % 4) * 4, diff0) + 1]
        y2    == Shr(diff, 1)
        y1    == diff
        this2 == BitXor(BitXor(BitXor(y2, y1), Shr(convolution0, 2)),
                        BitAnd(BitXor(y2, Shr(convolution0, 1)), convolution0))
        this1 == BitXor(BitXor(y2, Shr(convolution0, 1)), BitAnd(y1, convolution0))
        conv  == BitOr(BitOr((convolution0 % 2) * 4, (this2 % 2) * 2), this1 % 2)
    IN  [diff |-> diff,
         convolution |-> conv,
         index |-> BitOr(BitOr(BitAnd(q * 2, 120), diff * 2), Shr(conv, 2) % 2)]

(***************************************************************************)
(* The status handler is called, when there is one.                         *)
(***************************************************************************)
Notify(m, event) ==
    IF m.s.status_handler # NULL
    THEN [m EXCEPT !.h.status = Append(@, <<event, m.s.training_step, m.h.baud_no>>)]
    ELSE [m EXCEPT !.h.dropped = @ + 1]

(***************************************************************************)
(* What one invocation of the current bit source can return: fake_get_bit   *)
(* returns 1; an application's source returns a bit while there is one, and *)
(* end of data after the last bit of its message, which has one of          *)
(* MessageLengths bits.  The first source sends alternating bits, the other *)
(* ones zeros.                                                              *)
(***************************************************************************)
AppBit(get_bit, k) == IF get_bit = "get_bit_1" THEN k % 2 ELSE 0

SourceReturns(m) ==
    IF m.s.current_get_bit = fake_get_bit THEN {1}
    ELSE IF m.h.bits_got < MaxBits
    THEN {AppBit(m.s.current_get_bit, m.h.bits_got)}
             \cup (IF m.h.bits_got \in MessageLengths
                   THEN {SIG_STATUS_END_OF_DATA} ELSE {})
    ELSE {SIG_STATUS_END_OF_DATA}

\* The bookkeeping of one invocation that returned r.
Invoked(m, r) ==
    IF m.s.current_get_bit = fake_get_bit
    THEN [m EXCEPT !.h.fake_calls = @ + 1]
    ELSE [m EXCEPT !.h.src_calls = @ + 1,
                   !.h.bits_got = IF r = SIG_STATUS_END_OF_DATA THEN @ ELSE @ + 1]

\* As get_bits, but without the return to training at the end of data.
RECURSIVE get_bits_no_reentry(_, _, _, _)
get_bits_no_reentry(m, i, bits, ins) ==
    IF i >= m.s.bits_per_symbol
    THEN {[m |-> IF m.h.eod_i # -1 /\ m.h.eod_in = << >>
                 THEN [m EXCEPT !.h.eod_in = ins] ELSE m,
           bits |-> bits]}
    ELSE UNION {
           LET m1  == Invoked(m, r)
               eod == r = SIG_STATUS_END_OF_DATA
               m2  == IF eod
                      THEN [Notify(m1, SIG_STATUS_END_OF_DATA)
                               EXCEPT !.s.current_get_bit = fake_get_bit,
                                      !.h.eod_baud = m.h.baud_no,
                                      !.h.eod_i = i]
                      ELSE m1
               bit == IF eod THEN 1 ELSE r
               sc  == scramble(m2.s.scramble_reg, bit)
               m3  == [m2 EXCEPT !.s.scramble_reg = sc.reg]
           IN  get_bits_no_reentry(m3, i + 1, BitOr(bits, sc.out * Pow2(i)), Append(ins, bit))
           : r \in SourceReturns(m) }

\* As get_bits, but with training_step set back to V17_TRAINING_END at the end
\* of data.
RECURSIVE get_bits_step_back(_, _, _, _)
get_bits_step_back(m, i, bits, ins) ==
    IF i >= m.s.bits_per_symbol
    THEN {[m |-> IF m.h.eod_i # -1 /\ m.h.eod_in = << >>
                 THEN [m EXCEPT !.h.eod_in = ins] ELSE m,
           bits |-> bits]}
    ELSE UNION {
           LET m1  == Invoked(m, r)
               eod == r = SIG_STATUS_END_OF_DATA
               m2  == IF eod
                      THEN [Notify(m1, SIG_STATUS_END_OF_DATA)
                               EXCEPT !.s.current_get_bit = fake_get_bit,
                                      !.s.in_training = TRUE,
                                      !.s.training_step = V17_TRAINING_END,
                                      !.h.eod_baud = m.h.baud_no,
                                      !.h.eod_i = i]
                      ELSE m1
               bit == IF eod THEN 1 ELSE r
               sc  == scramble(m2.s.scramble_reg, bit)
               m3  == [m2 EXCEPT !.s.scramble_reg = sc.reg]
           IN  get_bits_step_back(m3, i + 1, BitOr(bits, sc.out * Pow2(i)), Append(ins, bit))
           : r \in SourceReturns(m) }

(***************************************************************************)
(* The bit loop of getbaud, from bit i on: the outcomes, each with the      *)
(* scrambled bits of the symbol.  ins are the bits given to the scrambler.  *)
(***************************************************************************)
RECURSIVE get_bits(_, _, _, _)
get_bits(m, i, bits, ins) ==
    IF i >= m.s.bits_per_symbol
    THEN {[m |-> IF m.h.eod_i # -1 /\ m.h.eod_in = << >>
                 THEN [m EXCEPT !.h.eod_in = ins] ELSE m,
           bits |-> bits]}
    ELSE UNION {
           LET m1  == Invoked(m, r)
               eod == r = SIG_STATUS_END_OF_DATA
               m2  == IF eod
                      THEN [Notify(m1, SIG_STATUS_END_OF_DATA)
                               EXCEPT !.s.current_get_bit = fake_get_bit,
                                      !.s.in_training = TRUE,
                                      !.h.eod_baud = m.h.baud_no,
                                      !.h.eod_i = i]
                      ELSE m1
               bit == IF eod THEN 1 ELSE r
               sc  == scramble(m2.s.scramble_reg, bit)
               m3  == [m2 EXCEPT !.s.scramble_reg = sc.reg]
           IN  get_bits(m3, i + 1, BitOr(bits, sc.out * Pow2(i)), Append(ins, bit))
           : r \in SourceReturns(m) }

\* The tail of getbaud: the bits of one symbol, trellis encoded.
encoded_baud(m, kind) ==
    { LET e == diff_and_convolutional_encode(g.m.s.diff, g.m.s.convolution, g.bits)
      IN  Baud([g.m EXCEPT !.s.diff = e.diff, !.s.convolution = e.convolution],
               kind, <<g.m.s.constellation, e.index>>)
      : g \in get_bits(m, 0, 0, << >>) }

\* As getbaud, but leaving training one baud early, when training_step
\* reaches V17_TRAINING_END.
getbaud_early_end(m0) ==
    LET m == [m0 EXCEPT !.h.baud_no = @ + 1,
                        !.h.over = IF m0.s.training_step >= V17_TRAINING_SHUTDOWN_END
                                   THEN @ + 1 ELSE @]
    IN  IF m.s.in_training
        THEN IF m.s.training_step <= V17_TRAINING_END
             THEN IF m.s.training_step < V17_TRAINING_SEG_4
                  THEN {training_get(m)}
                  ELSE LET m1 == [m EXCEPT !.s.training_step = @ + 1]
                       IN  IF m1.s.training_step >= V17_TRAINING_END
                           THEN encoded_baud(
                                  [m1 EXCEPT !.s.current_get_bit = m.s.get_bit,
                                             !.s.in_training = FALSE], "data")
                           ELSE encoded_baud(m1, "ones")
             ELSE LET m1 == [m EXCEPT !.s.training_step = @ + 1]
                  IN  IF m1.s.training_step > V17_TRAINING_SHUTDOWN_A
                      THEN {Baud(m1, "shutdown_zero", zero)}
                      ELSE encoded_baud(m1, "shutdown_ones")
        ELSE encoded_baud(m, "data")

\* As getbaud, but counting the data bauds in training_step as well.
getbaud_counting(m0) ==
    LET m == [m0 EXCEPT !.h.baud_no = @ + 1,
                        !.h.over = IF m0.s.training_step >= V17_TRAINING_SHUTDOWN_END
                                   THEN @ + 1 ELSE @]
    IN  IF m.s.in_training
        THEN IF m.s.training_step <= V17_TRAINING_END
             THEN IF m.s.training_step < V17_TRAINING_SEG_4
                  THEN {training_get(m)}
                  ELSE LET m1 == [m EXCEPT !.s.training_step = @ + 1]
                       IN  IF m1.s.training_step > V17_TRAINING_END
                           THEN encoded_baud(
                                  [m1 EXCEPT !.s.current_get_bit = m.s.get_bit,
                                             !.s.in_training = FALSE], "data")
                           ELSE encoded_baud(m1, "ones")
             ELSE LET m1 == [m EXCEPT !.s.training_step = @ + 1]
                  IN  IF m1.s.training_step > V17_TRAINING_SHUTDOWN_A
                      THEN {Baud(m1, "shutdown_zero", zero)}
                      ELSE IF m1.s.training_step = V17_TRAINING_SHUTDOWN_END
                      THEN encoded_baud(Notify(m1, SIG_STATUS_SHUTDOWN_COMPLETE),
                                        "shutdown_ones")
                      ELSE encoded_baud(m1, "shutdown_ones")
        ELSE encoded_baud([m EXCEPT !.s.training_step = @ + 1], "data")

(***************************************************************************)
(* getbaud: the outcomes of pulling one baud.                               *)
(***************************************************************************)
getbaud(m0) ==
    LET m == [m0 EXCEPT !.h.baud_no = @ + 1,
                        !.h.over = IF m0.s.training_step >= V17_TRAINING_SHUTDOWN_END
                                   THEN @ + 1 ELSE @]
    IN  IF m.s.in_training
        THEN IF m.s.training_step <= V17_TRAINING_END
             THEN IF m.s.training_step < V17_TRAINING_SEG_4
                  THEN {training_get(m)}
                  ELSE LET m1 == [m EXCEPT !.s.training_step = @ + 1]
                       IN  IF m1.s.training_step > V17_TRAINING_END
                           THEN encoded_baud(
                                  [m1 EXCEPT !.s.current_get_bit = m.s.get_bit,
                                             !.s.in_training = FALSE], "data")
                           ELSE encoded_baud(m1, "ones")
             ELSE LET m1 == [m EXCEPT !.s.training_step = @ + 1]
                  IN  IF m1.s.training_step > V17_TRAINING_SHUTDOWN_A
                      THEN {Baud(m1, "shutdown_zero", zero)}
                      ELSE IF m1.s.training_step = V17_TRAINING_SHUTDOWN_END
                      THEN encoded_baud(Notify(m1, SIG_STATUS_SHUTDOWN_COMPLETE),
                                        "shutdown_ones")
                      ELSE encoded_baud(m1, "shutdown_ones")
        ELSE encoded_baud(m, "data")

(***************************************************************************)
(* The sample loop of v17_tx, from sample on: the outcomes, each with the   *)
(* count v17_tx returns.                                                    *)
(***************************************************************************)
\* As PutBaud, but with the baud written to the first half of the buffer only.
PutBaud_one_half(m) ==
    LET k    == m.s.rrc_filter_step
        next == IF k + 1 >= V17_TX_FILTER_STEPS THEN 0 ELSE k + 1
    IN  [m EXCEPT !.s.rrc_filter[k + 1] = m.pt,
                  !.s.rrc_filter_step = next]

\* The baud is written to both halves of the buffer, and the position moves on.
PutBaud(m) ==
    LET k    == m.s.rrc_filter_step
        next == IF k + 1 >= V17_TX_FILTER_STEPS THEN 0 ELSE k + 1
    IN  [m EXCEPT !.s.rrc_filter[k + 1] = m.pt,
                  !.s.rrc_filter[k + V17_TX_FILTER_STEPS + 1] = m.pt,
                  !.s.rrc_filter_step = next]

\* The carrier is advanced by one sample (dds_complexf).
Modulate(m) ==
    [m EXCEPT !.s.carrier_phase = Add32(@, m.s.carrier_phase_rate)]

\* One sample was generated, with or without a baud pulled for it.
Sampled(m, pulled) ==
    [m EXCEPT !.h.samples = @ + 1,
              !.h.window = IF Len(@) < 10 THEN Append(@, pulled)
                                          ELSE Append(Tail(@), pulled),
              !.h.phases = @ \cup {m.s.baud_phase}]

\* As tx_samples, but with the accumulator advanced by 4 for each sample.
RECURSIVE tx_samples_by_4(_, _, _)
tx_samples_by_4(m, sample, n) ==
    IF sample >= n
    THEN {[m EXCEPT !.ret = sample]}
    ELSE LET phase == m.s.baud_phase + 4
         IN  IF phase >= 10
             THEN UNION { tx_samples_by_4(Sampled(Modulate(PutBaud(b)), TRUE),
                                          sample + 1, n)
                          : b \in getbaud([m EXCEPT !.s.baud_phase = phase - 10]) }
             ELSE tx_samples_by_4(Sampled(Modulate([m EXCEPT !.s.baud_phase = phase]),
                                          FALSE),
                                  sample + 1, n)

RECURSIVE tx_samples(_, _, _)
tx_samples(m, sample, n) ==
    IF sample >= n
    THEN {[m EXCEPT !.ret = sample]}
    ELSE LET phase == m.s.baud_phase + 3
         IN  IF phase >= 10
             THEN UNION { tx_samples(Sampled(Modulate(PutBaud(b)), TRUE), sample + 1, n)
                          : b \in getbaud([m EXCEPT !.s.baud_phase = phase - 10]) }
             ELSE tx_samples(Sampled(Modulate([m EXCEPT !.s.baud_phase = phase]), FALSE),
                             sample + 1, n)

(***************************************************************************)
(* v17_tx: up to n samples are generated.                                   *)
(***************************************************************************)
\* As v17_tx, but stopping only after V17_TRAINING_SHUTDOWN_END is passed.
v17_tx_late_stop(n) ==
    /\ len' = n
    /\ rc' = rc
    /\ IF s.training_step > V17_TRAINING_SHUTDOWN_END
       THEN /\ ret' = 0
            /\ UNCHANGED <<s, h>>
       ELSE \E m \in tx_samples([s |-> s, h |-> h, pt |-> zero, ret |-> 0], 0, n) :
              /\ s' = m.s
              /\ h' = m.h
              /\ ret' = m.ret

v17_tx(n) ==
    /\ len' = n
    /\ rc' = rc
    /\ IF s.training_step >= V17_TRAINING_SHUTDOWN_END
       THEN /\ ret' = 0
            /\ UNCHANGED <<s, h>>
       ELSE \E m \in tx_samples([s |-> s, h |-> h, pt |-> zero, ret |-> 0], 0, n) :
              /\ s' = m.s
              /\ h' = m.h
              /\ ret' = m.ret

(***************************************************************************)
(* v17_tx_power, v17_tx_set_get_bit, v17_tx_set_modem_status_handler.       *)
(***************************************************************************)
\* The gain is a function of the power alone; it is kept as the power it came from.
GainFor(power) == <<"gain", power>>

v17_tx_power(power) ==
    /\ s' = [s EXCEPT !.gain = GainFor(power)]
    /\ UNCHANGED <<h, len, ret, rc>>

\* As v17_tx_set_get_bit, but making the new source the current one at once.
v17_tx_set_get_bit_at_once(get_bit, user_data) ==
    /\ s' = [s EXCEPT !.current_get_bit = get_bit,
                      !.get_bit = get_bit,
                      !.get_bit_user_data = user_data]
    /\ UNCHANGED <<h, len, ret, rc>>

\* As v17_tx_set_get_bit, but never touching the current source.
v17_tx_set_get_bit_for_later(get_bit, user_data) ==
    /\ s' = [s EXCEPT !.get_bit = get_bit,
                      !.get_bit_user_data = user_data]
    /\ UNCHANGED <<h, len, ret, rc>>

v17_tx_set_get_bit(get_bit, user_data) ==
    /\ s' = [s EXCEPT !.current_get_bit =
                          IF s.get_bit = s.current_get_bit THEN get_bit ELSE @,
                      !.get_bit = get_bit,
                      !.get_bit_user_data = user_data]
    /\ UNCHANGED <<h, len, ret, rc>>

v17_tx_set_modem_status_handler(handler, user_data) ==
    /\ s' = [s EXCEPT !.status_handler = handler,
                      !.status_user_data = user_data]
    /\ UNCHANGED <<h, len, ret, rc>>

(***************************************************************************)
(* v17_tx_restart returns 0, or -1 for a bit rate that is not supported.    *)
(***************************************************************************)
\* As BitsPerSymbol, but with 4 bits in a symbol at 7200 bps.
BitsPerSymbol_four_at_7200(bit_rate) ==
    CASE bit_rate = 14400 -> 6
      [] bit_rate = 12000 -> 5
      [] bit_rate = 9600  -> 4
      [] bit_rate = 7200  -> 4

BitsPerSymbol(bit_rate) ==
    CASE bit_rate = 14400 -> 6
      [] bit_rate = 12000 -> 5
      [] bit_rate = 9600  -> 4
      [] bit_rate = 7200  -> 3

Constellation(bit_rate) ==
    CASE bit_rate = 14400 -> "v17_14400_constellation"
      [] bit_rate = 12000 -> "v17_12000_constellation"
      [] bit_rate = 9600  -> "v17_9600_constellation"
      [] bit_rate = 7200  -> "v17_7200_constellation"

\* As Restarted, but leaving training_step as it is.
Restarted_keeping_step(st, bit_rate, tep, short_train) ==
    [st EXCEPT !.bits_per_symbol = BitsPerSymbol(bit_rate),
               !.constellation = Constellation(bit_rate),
               !.diff = IF short_train THEN 0 ELSE 1,
               !.bit_rate = bit_rate,
               !.rrc_filter = [i \in 1..(2 * V17_TX_FILTER_STEPS) |-> zero],
               !.rrc_filter_step = 0,
               !.convolution = 0,
               !.scramble_reg = ScrambleSeed,
               !.in_training = TRUE,
               !.short_train = short_train,
               !.carrier_phase = <<0, 0>>,
               !.baud_phase = 0,
               !.constellation_state = 0,
               !.current_get_bit = fake_get_bit]

\* As Restarted, but leaving the scrambler register as it is.
Restarted_keeping_scrambler(st, bit_rate, tep, short_train) ==
    [st EXCEPT !.bits_per_symbol = BitsPerSymbol(bit_rate),
               !.constellation = Constellation(bit_rate),
               !.diff = IF short_train THEN 0 ELSE 1,
               !.bit_rate = bit_rate,
               !.rrc_filter = [i \in 1..(2 * V17_TX_FILTER_STEPS) |-> zero],
               !.rrc_filter_step = 0,
               !.convolution = 0,
               !.in_training = TRUE,
               !.short_train = short_train,
               !.training_step = IF tep THEN V17_TRAINING_SEG_TEP_A
                                        ELSE V17_TRAINING_SEG_1,
               !.carrier_phase = <<0, 0>>,
               !.baud_phase = 0,
               !.constellation_state = 0,
               !.current_get_bit = fake_get_bit]

Restarted(st, bit_rate, tep, short_train) ==
    [st EXCEPT !.bits_per_symbol = BitsPerSymbol(bit_rate),
               !.constellation = Constellation(bit_rate),
               !.diff = IF short_train THEN 0 ELSE 1,
               !.bit_rate = bit_rate,
               !.rrc_filter = [i \in 1..(2 * V17_TX_FILTER_STEPS) |-> zero],
               !.rrc_filter_step = 0,
               !.convolution = 0,
               !.scramble_reg = ScrambleSeed,
               !.in_training = TRUE,
               !.short_train = short_train,
               !.training_step = IF tep THEN V17_TRAINING_SEG_TEP_A
                                        ELSE V17_TRAINING_SEG_1,
               !.carrier_phase = <<0, 0>>,
               !.baud_phase = 0,
               !.constellation_state = 0,
               !.current_get_bit = fake_get_bit]

\* As v17_tx_restart, but with the bit rate looked at after the instance is reset.
v17_tx_restart_reset_first(bit_rate, tep, short_train) ==
    IF bit_rate \in BitRates
    THEN /\ s' = Restarted(s, bit_rate, tep, short_train)
         /\ h' = NoObservations(tep)
         /\ len' = 0
         /\ ret' = 0
         /\ rc' = Returned("v17_tx_restart", 0)
    ELSE /\ rc' = Returned("v17_tx_restart", -1)
         /\ s' = [s EXCEPT !.in_training = TRUE,
                           !.training_step = IF tep THEN V17_TRAINING_SEG_TEP_A
                                                    ELSE V17_TRAINING_SEG_1]
         /\ UNCHANGED <<h, len, ret>>

v17_tx_restart(bit_rate, tep, short_train) ==
    IF bit_rate \in BitRates
    THEN /\ s' = Restarted(s, bit_rate, tep, short_train)
         /\ h' = NoObservations(tep)
         /\ len' = 0
         /\ ret' = 0
         /\ rc' = Returned("v17_tx_restart", 0)
    ELSE /\ rc' = Returned("v17_tx_restart", -1)
         /\ UNCHANGED <<s, h, len, ret>>

(***************************************************************************)
(* v17_tx_init: the instance is cleared, then the bit source, the carrier   *)
(* and the power are set and the instance is restarted for long training.   *)
(***************************************************************************)
Cleared ==
    [ bit_rate |-> 0, bits_per_symbol |-> 0, constellation |-> NULL,
      diff |-> 0, convolution |-> 0, scramble_reg |-> <<0, 0>>,
      in_training |-> FALSE, short_train |-> FALSE, training_step |-> 0,
      carrier_phase |-> <<0, 0>>, carrier_phase_rate |-> <<0, 0>>, baud_phase |-> 0,
      constellation_state |-> 0,
      current_get_bit |-> NULL, get_bit |-> NULL, get_bit_user_data |-> NULL,
      status_handler |-> NULL, status_user_data |-> NULL,
      gain |-> 0,
      rrc_filter |-> [i \in 1..(2 * V17_TX_FILTER_STEPS) |-> zero],
      rrc_filter_step |-> 0 ]

v17_tx_init(bit_rate, tep, get_bit, user_data) ==
    Restarted([Cleared EXCEPT !.get_bit = get_bit,
                              !.get_bit_user_data = user_data,
                              !.carrier_phase_rate = CarrierPhaseRate,
                              !.gain = GainFor(-14)],
              bit_rate, tep, FALSE)

Init ==
    /\ \E bit_rate \in AppBitRates \cap BitRates, tep \in BOOLEAN, g \in GetBits :
           /\ s = v17_tx_init(bit_rate, tep, g[1], g[2])
           /\ h = NoObservations(tep)
    /\ len = 0
    /\ ret = 0
    /\ rc = Returned("v17_tx_init", "s")

Tx == \E n \in Lens : v17_tx(n)
Power == \E power \in Powers : v17_tx_power(power)
SetGetBit == \E g \in GetBits : v17_tx_set_get_bit(g[1], g[2])
SetHandler == \E hd \in Handlers : v17_tx_set_modem_status_handler(hd[1], hd[2])
Restart ==
    \E bit_rate \in AppBitRates, tep \in BOOLEAN, short_train \in BOOLEAN :
        v17_tx_restart(bit_rate, tep, short_train)

\* The call of v17_tx_init on the instance in use: it returns the instance, or
\* NULL for a bit rate that is not supported.
v17_tx_init_call(bit_rate, tep, get_bit, user_data) ==
    IF bit_rate \in BitRates
    THEN /\ s' = v17_tx_init(bit_rate, tep, get_bit, user_data)
         /\ h' = NoObservations(tep)
         /\ len' = 0
         /\ ret' = 0
         /\ rc' = Returned("v17_tx_init", "s")
    ELSE /\ rc' = Returned("v17_tx_init", NULL)
         /\ UNCHANGED <<s, h, len, ret>>

Reinit ==
    \E bit_rate \in AppBitRates, tep \in BOOLEAN, g \in GetBits :
        v17_tx_init_call(bit_rate, tep, g[1], g[2])

Next == Tx \/ Power \/ SetGetBit \/ SetHandler \/ Restart \/ Reinit

(***************************************************************************)
(* The states of a run.                                                     *)
(***************************************************************************)
\* The shutdown sequence is over: v17_tx generates nothing.
Terminal == s.training_step >= V17_TRAINING_SHUTDOWN_END
\* The application's bit source has returned end of data in this run.
EndOfData == h.eod_i # -1
\* The events of one kind the status handler has received in this run.
Delivered(event) == {i \in 1..Len(h.status) : h.status[i][1] = event}

(***************************************************************************)
(* Specifications.  Under SpecLive the application keeps asking for samples *)
(* for as long as the transmitter generates any.  TxCall is the step of     *)
(* v17_tx(MaxLen) in a state that is not Terminal: the only step that pulls *)
(* bauds while asking for MaxLen samples.  v17_tx can be called in every    *)
(* state, so ENABLED <<TxCall>>_vars is ~Terminal, and KeepsCalling is      *)
(* WF_vars(~Terminal /\ v17_tx(MaxLen)) with its ENABLED written out.       *)
(* Under Spec alone a run may stop anywhere, and nothing is ever reached.   *)
(***************************************************************************)
Spec == Init /\ [][Next]_vars

TxCall == len' = MaxLen /\ h'.baud_no > h.baud_no

KeepsCalling == []<><<TxCall>>_vars \/ []<>Terminal

SpecLive == Init /\ [][Next]_vars /\ KeepsCalling

\* TxCall is what it stands for.
TxCallIsTheCall == [][TxCall <=> (~Terminal /\ v17_tx(MaxLen))]_vars

(***************************************************************************)
(* C1: when the bit source has returned end of data and the shutdown        *)
(* sequence is over, the status handler has been called with                *)
(* SIG_STATUS_SHUTDOWN_COMPLETE exactly once, in the baud in which          *)
(* training_step became V17_TRAINING_SHUTDOWN_END.                          *)
(***************************************************************************)
C1_ShutdownCompleteOnce ==
    (Terminal /\ EndOfData /\ s.status_handler # NULL /\ h.dropped = 0) =>
        /\ Cardinality(Delivered(SIG_STATUS_SHUTDOWN_COMPLETE)) = 1
        /\ \A i \in Delivered(SIG_STATUS_SHUTDOWN_COMPLETE) :
               h.status[i][2] = V17_TRAINING_SHUTDOWN_END

(***************************************************************************)
(* C2: no baud is pulled once training_step has reached                     *)
(* V17_TRAINING_SHUTDOWN_END: training_step never exceeds it, and v17_tx    *)
(* returns between 0 and the requested length.                              *)
(***************************************************************************)
C2_NoBaudAfterShutdownEnd ==
    /\ s.training_step <= V17_TRAINING_SHUTDOWN_END
    /\ h.over = 0
    /\ ret \in 0..len

(***************************************************************************)
(* C3: in a state with training_step >= V17_TRAINING_SHUTDOWN_END a call of *)
(* v17_tx, with any length, returns 0, invokes neither a bit source nor the *)
(* status handler, and leaves every field of the instance as it was.        *)
(***************************************************************************)
C3_IdempotentTermination ==
    [][\A n \in Lens :
          (Terminal /\ v17_tx(n)) => (ret' = 0 /\ s' = s /\ h' = h)]_vars

C3_Witness == Terminal /\ len = MaxLen /\ ret = 0

(***************************************************************************)
(* C4: in one run SIG_STATUS_END_OF_DATA is delivered to the status handler *)
(* at most once, in the baud in which the application's bit source first    *)
(* returns it; in that baud the missing bit and the bits after it are 1;    *)
(* and the application's bit source is not invoked again in that run,       *)
(* whatever v17_tx_set_get_bit installs.                                    *)
(***************************************************************************)
C4_State ==
    /\ Cardinality(Delivered(SIG_STATUS_END_OF_DATA)) + h.dropped <= 1
    /\ \A i \in Delivered(SIG_STATUS_END_OF_DATA) :
           EndOfData /\ h.status[i][3] = h.eod_baud
    /\ (EndOfData /\ h.dropped = 0) => Delivered(SIG_STATUS_END_OF_DATA) # {}
    /\ EndOfData =>
           /\ Len(h.eod_in) = s.bits_per_symbol
           /\ \A j \in (h.eod_i + 1)..Len(h.eod_in) : h.eod_in[j] = 1
           /\ h.src_calls = h.bits_got + 1
    /\ ~EndOfData => h.src_calls = h.bits_got

C4_EndOfDataOnce ==
    [][/\ C4_State'
       /\ (EndOfData /\ EndOfData') => h'.src_calls = h.src_calls]_vars

C4_Witness ==
    /\ EndOfData
    /\ h.eod_i = 1
    /\ Cardinality(Delivered(SIG_STATUS_END_OF_DATA)) = 1
    /\ h.nb["shutdown_ones"] > 0

(***************************************************************************)
(* C5, as claimed: without the echo protection tone, in the state in which  *)
(* in_training becomes false, training_step is V17_TRAINING_END.            *)
(***************************************************************************)
C5_Claimed ==
    [][(~h'.tep /\ s.in_training /\ ~s'.in_training)
          => s'.training_step = V17_TRAINING_END]_vars

(***************************************************************************)
(* C5, amended: without the echo protection tone, in the state in which     *)
(* in_training becomes false, training_step is V17_TRAINING_END + 1: the    *)
(* baud that ends training is the one after the 48 bauds of ones.           *)
(***************************************************************************)
C5_TrainingEnd ==
    [][(~h'.tep /\ s.in_training /\ ~s'.in_training)
          => /\ s'.training_step = V17_TRAINING_END + 1
             /\ h'.nb["ones"] = 48]_vars

C5_Witness == ~h.tep /\ ~s.in_training /\ h.nb["data"] >= 1

(***************************************************************************)
(* The bauds still in the filter buffer: the j-th latest, j in 0..8.        *)
(***************************************************************************)
Latest(j) ==
    s.rrc_filter[((s.rrc_filter_step + 2 * V17_TX_FILTER_STEPS - 1 - j)
                     % V17_TX_FILTER_STEPS) + 1]

(***************************************************************************)
(* C6: after a restart for long training the bauds pulled are, in this      *)
(* order, 480 of unmodulated carrier and 48 of silence (with tep; none      *)
(* without), 256 of segment 1, alternating A, B from A, 2976 of segment 2,  *)
(* 64 of the bridge and 48 of scrambled ones from fake_get_bit; the baud    *)
(* after these is the first to invoke the application's bit source.         *)
(***************************************************************************)
C6_LongTraining ==
    ~s.short_train =>
        LET nb   == h.nb
            tepA == IF h.tep THEN 480 ELSE 0
            tepB == IF h.tep THEN 48 ELSE 0
            seg1 == tepA + tepB
        IN  /\ nb["tep"] <= tepA /\ nb["silence"] <= tepB /\ nb["seg1"] <= 256
            /\ nb["seg2"] <= 2976 /\ nb["bridge"] <= 64 /\ nb["ones"] <= 48
            /\ nb["silence"] > 0 => nb["tep"] = tepA
            /\ nb["seg1"] > 0 => (nb["tep"] = tepA /\ nb["silence"] = tepB)
            /\ nb["seg2"] > 0 => nb["seg1"] = 256
            /\ nb["bridge"] > 0 => nb["seg2"] = 2976
            /\ nb["ones"] > 0 => nb["bridge"] = 64
            /\ nb["data"] > 0 => (nb["ones"] = 48 /\ h.src_calls > 0)
            /\ nb["data"] = 0 =>
                   /\ h.src_calls = 0
                   /\ h.fake_calls = nb["ones"] * s.bits_per_symbol
                   /\ h.baud_no = nb["tep"] + nb["silence"] + nb["seg1"] + nb["seg2"]
                                    + nb["bridge"] + nb["ones"]
            /\ \A j \in 0..(V17_TX_FILTER_STEPS - 1) :
                   LET b == h.baud_no - j
                   IN  (b > seg1 /\ b <= seg1 + nb["seg1"])
                          => Latest(j) = v17_abcd_constellation((b - seg1 - 1) % 2)

C6_Witness ==
    ~s.short_train /\ h.tep /\ h.nb["data"] >= 1 /\ h.nb["seg2"] = 2976

(***************************************************************************)
(* C7: after a restart for short training segment 2 has 38 bauds, the       *)
(* counter goes from V17_TRAINING_SEG_2 + 38 to V17_TRAINING_SEG_4 at once, *)
(* no bridge baud is pulled and the 48 bauds of ones follow; in long        *)
(* training the counter advances by one per baud up to V17_TRAINING_SEG_4.  *)
(***************************************************************************)
C7_ShortTraining ==
    LET nb    == h.nb
        start == IF h.tep THEN V17_TRAINING_SEG_TEP_A ELSE V17_TRAINING_SEG_1
    IN  /\ s.short_train =>
               /\ nb["seg2"] <= 38 /\ nb["bridge"] = 0 /\ nb["ones"] <= 48
               /\ s.training_step \notin V17_TRAINING_SHORT_SEG_4..(V17_TRAINING_SEG_4 - 1)
               /\ nb["seg2"] = 38 => s.training_step >= V17_TRAINING_SEG_4
               /\ nb["seg2"] < 38 => s.training_step = start + h.baud_no
               /\ nb["ones"] > 0 => nb["seg2"] = 38
               /\ nb["data"] > 0 => nb["ones"] = 48
               /\ nb["data"] = 0 =>
                      h.baud_no = nb["tep"] + nb["silence"] + nb["seg1"] + nb["seg2"]
                                     + nb["ones"]
        /\ ~s.short_train =>
               /\ s.training_step <= V17_TRAINING_SEG_4
                      => s.training_step = start + h.baud_no
               /\ s.training_step >= V17_TRAINING_SEG_4
                      => (nb["seg2"] = 2976 /\ nb["bridge"] = 64)

C7_Witness ==
    s.short_train /\ h.nb["seg2"] = 38 /\ h.nb["ones"] = 48 /\ h.nb["data"] >= 1

(***************************************************************************)
(* C8: with the baud in which end of data came as baud 0, bauds 1 to 31 are *)
(* trellis encoded ones from fake_get_bit, the zero point is first pulled   *)
(* in baud 32 and is pulled for exactly 48 bauds, and training_step is      *)
(* V17_TRAINING_SHUTDOWN_END at the last of them.                           *)
(***************************************************************************)
C8_ShutdownShape ==
    EndOfData =>
        LET n == h.baud_no - h.eod_baud
        IN  /\ h.nb["shutdown_ones"] = IF n <= 31 THEN n ELSE 31
            /\ h.nb["shutdown_zero"] = IF n <= 31 THEN 0 ELSE n - 31
            /\ h.nb["shutdown_zero"] <= 48
            /\ s.training_step = V17_TRAINING_END + 1 + n
            /\ Terminal => (n = 79 /\ s.training_step = V17_TRAINING_SHUTDOWN_END)

\* The shape of the shutdown sequence up to V17_TRAINING_SHUTDOWN_END.
C8_ShapeToTheEnd ==
    EndOfData =>
        LET n == h.baud_no - h.eod_baud
        IN  /\ h.nb["shutdown_ones"] = IF n <= 31 THEN n ELSE 31
            /\ h.nb["shutdown_zero"] = IF n <= 31 THEN 0 ELSE n - 31
            /\ s.training_step = V17_TRAINING_END + 1 + n
            /\ Terminal <=> n >= 79

(***************************************************************************)
(* C9: once end of data has come, in_training stays true and the current    *)
(* bit source stays fake_get_bit until a restart, whatever is called; and   *)
(* when the application keeps asking for samples, the state in which v17_tx *)
(* returns 0 is reached (unless a restart begins a new run first).          *)
(***************************************************************************)
C9_ShutdownCompletes ==
    /\ [](EndOfData => (s.in_training /\ s.current_get_bit = fake_get_bit))
    /\ EndOfData ~> (Terminal \/ ~EndOfData)

C9_Witness == EndOfData /\ Terminal /\ len = MaxLen /\ ret = 0 /\ s.get_bit = "get_bit_2"

(***************************************************************************)
(* C10: as long as the application's bit source has not returned end of     *)
(* data, no status event is delivered and every v17_tx call returns the     *)
(* requested length; and once training is over, in_training stays false     *)
(* and training_step stays as it is, until end of data or a restart (a      *)
(* restart is the only step after which fewer bauds have been pulled).      *)
(***************************************************************************)
C10_NoShutdownWithoutEndOfData ==
    [][~EndOfData' =>
         /\ h'.status = << >>
         /\ h'.dropped = 0
         /\ ret' = len'
         /\ (~s.in_training /\ h'.baud_no >= h.baud_no) =>
                (~s'.in_training /\ s'.training_step = s.training_step)]_vars

C10_Witness ==
    ~s.in_training /\ ~EndOfData /\ len = MaxLen /\ ret = MaxLen /\ h.bits_got >= 24

(***************************************************************************)
(* C11: for a bit rate that is not supported v17_tx_restart returns -1 and  *)
(* v17_tx_init returns NULL, and neither changes a field of the instance    *)
(* (nor what has been observed of its run); a call that returned a failure  *)
(* changed nothing.                                                         *)
(***************************************************************************)
C11_UnsupportedBitRate ==
    [][/\ \A bit_rate \in AppBitRates \ BitRates, tep \in BOOLEAN :
            /\ \A short_train \in BOOLEAN :
                   v17_tx_restart(bit_rate, tep, short_train)
                       => (rc' = Returned("v17_tx_restart", -1) /\ s' = s /\ h' = h)
            /\ \A g \in GetBits :
                   v17_tx_init_call(bit_rate, tep, g[1], g[2])
                       => (rc' = Returned("v17_tx_init", NULL) /\ s' = s /\ h' = h)
       /\ (rc' # rc /\ rc' \in Failures) => (s' = s /\ h' = h)
       /\ (rc' # rc /\ rc' \notin Failures) => s'.bit_rate \in BitRates]_vars

C11_Witness == rc \in Failures /\ ~s.in_training /\ h.nb["data"] > 0

(***************************************************************************)
(* C12: a successful v17_tx_restart, in whatever state (the terminal one    *)
(* too), leaves training_step at V17_TRAINING_SEG_TEP_A with tep and at     *)
(* V17_TRAINING_SEG_1 without, in_training true, fake_get_bit the current   *)
(* bit source and the filter buffer all zero; and the first v17_tx call of  *)
(* the new run that asks for samples returns as many as it was asked for.   *)
(***************************************************************************)
C12_RestartRearms ==
    [][/\ \A bit_rate \in AppBitRates \cap BitRates, tep \in BOOLEAN,
             short_train \in BOOLEAN :
               v17_tx_restart(bit_rate, tep, short_train) =>
                   /\ rc' = Returned("v17_tx_restart", 0)
                   /\ s'.training_step = IF tep THEN V17_TRAINING_SEG_TEP_A
                                                ELSE V17_TRAINING_SEG_1
                   /\ s'.in_training
                   /\ s'.current_get_bit = fake_get_bit
                   /\ \A i \in DOMAIN s'.rrc_filter : s'.rrc_filter[i] = zero
                   /\ ~Terminal'
       /\ (h.baud_no = 0 /\ v17_tx(MaxLen)) => (ret' = MaxLen /\ h'.baud_no > 0)]_vars

\* A new run, begun by v17_tx_restart, whose first call returned what was asked for.
C12_Witness ==
    /\ rc = Returned("v17_tx_restart", 0)
    /\ s.short_train
    /\ len = MaxLen /\ ret = MaxLen
    /\ h.baud_no > 0 /\ h.baud_no * 10 <= MaxLen * 3

\* Restarts of a terminal instance happen: this is violated.
C12_NoRestartWhenTerminal ==
    [][~(Terminal /\ rc' = Returned("v17_tx_restart", 0) /\ h'.baud_no = 0 /\ ~Terminal')]_vars

(***************************************************************************)
(* A run in which no baud has been pulled yet: the instance is as the       *)
(* latest successful v17_tx_restart (or v17_tx_init) left it, but for the   *)
(* bit source, the status handler and the power.                            *)
(***************************************************************************)
Fresh == h.baud_no = 0

(***************************************************************************)
(* C13, as claimed: after every successful restart the scrambler register,  *)
(* the differential state and the convolution state have the same values    *)
(* (those v17_tx_init leaves), whatever the arguments.                      *)
(***************************************************************************)
C13_Claimed ==
    Fresh => (s.scramble_reg = ScrambleSeed /\ s.diff = 1 /\ s.convolution = 0)

(***************************************************************************)
(* C13, amended: after every successful restart the scrambler register is   *)
(* 0x2ECDD5 and the convolution state is 0, whatever the arguments; the     *)
(* differential state is 0 after a restart for short training and 1 after a *)
(* restart for long training.                                               *)
(***************************************************************************)
C13_RestartResets ==
    Fresh => /\ s.scramble_reg = ScrambleSeed
             /\ s.convolution = 0
             /\ s.diff = IF s.short_train THEN 0 ELSE 1

C13_Witness ==
    Fresh /\ s.short_train /\ rc = Returned("v17_tx_restart", 0) /\ s.get_bit = "get_bit_2"

(***************************************************************************)
(* C14: at 7200 bps, when the application's bit source has returned K bits  *)
(* and then end of data, the bauds pulled after training with at least one  *)
(* bit of the source in them are ceil(K/3) (the baud in which end of data   *)
(* came has none when it came at the first bit); the last of them is filled *)
(* up with ones when K is not a multiple of 3; and the source has been      *)
(* invoked K + 1 times.                                                     *)
(***************************************************************************)
C14_DataBauds ==
    (EndOfData /\ s.bit_rate = 7200) =>
        LET K == h.bits_got
        IN  /\ h.nb["data"] - (IF h.eod_i = 0 THEN 1 ELSE 0) = (K + 2) \div 3
            /\ h.eod_i = K % 3
            /\ Len(h.eod_in) = 3
            /\ \A j \in (h.eod_i + 1)..3 : h.eod_in[j] = 1
            /\ \A j \in 1..h.eod_i :
                   h.eod_in[j] \in {AppBit(g[1], K - h.eod_i + j - 1) : g \in GetBits}
            /\ h.src_calls = K + 1

C14_Witness ==
    EndOfData /\ s.bit_rate = 7200 /\ h.bits_got >= MaxBits - 1 /\ h.eod_i = 2
        /\ h.nb["shutdown_ones"] > 0

(***************************************************************************)
(* C15: training_step is lowered by no step but a successful call of        *)
(* v17_tx_restart or v17_tx_init: calls of v17_tx, v17_tx_set_get_bit,      *)
(* v17_tx_power and v17_tx_set_modem_status_handler, and calls that fail,   *)
(* leave it as it is or raise it.                                           *)
(***************************************************************************)
C15_MonotonicStep ==
    [][/\ s'.training_step < s.training_step =>
              /\ Restart \/ Reinit
              /\ rc' \notin Failures
              /\ Fresh'
       /\ (h'.baud_no > h.baud_no \/ rc' \in Failures \/ (s' # s /\ ~Fresh'))
              => s'.training_step >= s.training_step]_vars

C15_Witness ==
    /\ s.short_train /\ h.nb["seg2"] = 38 /\ s.training_step > V17_TRAINING_SEG_4
    /\ rc \in Failures

(***************************************************************************)
(* C16: in every state the current bit source is the application's exactly  *)
(* when in_training is false, and fake_get_bit otherwise; and in_training   *)
(* is false only with training_step at V17_TRAINING_END + 1.  (A source     *)
(* given to v17_tx_set_get_bit during training or shutdown is therefore not *)
(* the current one before training is over.)                                *)
(***************************************************************************)
C16_ModeAndSource ==
    /\ s.get_bit \in {g[1] : g \in GetBits}
    /\ s.in_training => s.current_get_bit = fake_get_bit
    /\ ~s.in_training => s.current_get_bit = s.get_bit
    /\ ~s.in_training => s.training_step = V17_TRAINING_END + 1

C16_Witness ==
    /\ ~s.in_training /\ s.current_get_bit = "get_bit_2"
    /\ s.short_train /\ h.tep /\ h.bits_got >= 3

(***************************************************************************)
(* C17: baud_phase is in 0..9 whenever a sample is filtered; the bauds      *)
(* pulled are those for which the accumulator, advanced by 3 for each       *)
(* sample, reaches 10 (so 10 * bauds + baud_phase = 3 * samples); and for   *)
(* any 10 consecutive samples 3 bauds are pulled, however the samples are   *)
(* split across v17_tx calls.                                               *)
(***************************************************************************)
C17_BaudGating ==
    /\ s.baud_phase \in 0..9
    /\ h.phases \subseteq 0..9
    /\ 10 * h.baud_no + s.baud_phase = 3 * h.samples
    /\ Len(h.window) = IF h.samples < 10 THEN h.samples ELSE 10
    /\ Len(h.window) = 10 =>
           Cardinality({i \in 1..10 : h.window[i]}) = 3

C17_Witness ==
    /\ h.samples >= 3 * MaxLen
    /\ h.phases = 0..9
    /\ h.window[10] /\ ~h.window[9]

(***************************************************************************)
(* C18: in every state rrc_filter_step is in 0..V17_TX_FILTER_STEPS - 1,    *)
(* the two halves of the filter buffer are the same, and the entries at     *)
(* rrc_filter_step .. rrc_filter_step + V17_TX_FILTER_STEPS - 1 (counted    *)
(* from 0, as in C) are the latest V17_TX_FILTER_STEPS bauds getbaud        *)
(* returned, from the oldest to the newest (zero where the run has not yet  *)
(* had as many).                                                            *)
(***************************************************************************)
C18_RingBuffer ==
    /\ s.rrc_filter_step \in 0..(V17_TX_FILTER_STEPS - 1)
    /\ DOMAIN s.rrc_filter = 1..(2 * V17_TX_FILTER_STEPS)
    /\ \A i \in 1..V17_TX_FILTER_STEPS :
           s.rrc_filter[i] = s.rrc_filter[i + V17_TX_FILTER_STEPS]
    /\ \A i \in 0..(V17_TX_FILTER_STEPS - 1) :
           s.rrc_filter[s.rrc_filter_step + i + 1] = h.recent[i + 1]

C18_Witness ==
    /\ h.baud_no >= 2 * V17_TX_FILTER_STEPS
    /\ s.rrc_filter_step = 4
    /\ h.recent[1] # h.recent[V17_TX_FILTER_STEPS]
    /\ h.recent[V17_TX_FILTER_STEPS] = zero

(***************************************************************************)
(* A 32 bit word shifted right by n, and its n low bits.                    *)
(***************************************************************************)
RECURSIVE ShrWord(_, _)
ShrWord(w, n) ==
    IF n = 0 THEN w
    ELSE ShrWord(<<w[1] \div 2, (w[1] % 2) * (Half \div 2) + w[2] \div 2>>, n - 1)

LowBits(w, n) ==
    IF n >= 16 THEN <<w[1] % Pow2(n - 16), w[2]>> ELSE <<0, w[2] % Pow2(n)>>

\* The register after is the register before with n more bits shifted in.
AdvancedBy(before, after, n) == ShrWord(after, n) = LowBits(before, 32 - n)

(***************************************************************************)
(* C19: over the bauds of one call of v17_tx, the scrambler register        *)
(* advances by 2 bits for each segment 2 and bridge baud and by             *)
(* bits_per_symbol bits for each ones, data and shutdown ones baud, and by  *)
(* nothing for the echo protection tone, silence, segment 1 and shutdown    *)
(* silence bauds; diff and convolution are as before when none of the       *)
(* bauds was trellis encoded.                                               *)
(***************************************************************************)
C19_ScramblerFrame ==
    [][TxCall =>
         LET by2 == (h'.nb["seg2"] - h.nb["seg2"]) + (h'.nb["bridge"] - h.nb["bridge"])
             enc == (h'.nb["ones"] - h.nb["ones"]) + (h'.nb["data"] - h.nb["data"])
                      + (h'.nb["shutdown_ones"] - h.nb["shutdown_ones"])
         IN  /\ AdvancedBy(s.scramble_reg, s'.scramble_reg,
                           2 * by2 + s.bits_per_symbol * enc)
             /\ enc = 0 => /\ s'.diff = s.diff
                           /\ s'.convolution = s.convolution]_vars

C19_Witness ==
    /\ h.nb["seg1"] > 0 /\ h.nb["bridge"] > 0
    /\ h.nb["data"] > 0 /\ h.nb["shutdown_zero"] > 0
    /\ s.scramble_reg # ScrambleSeed
    /\ s.convolution # 0

(***************************************************************************)
(* The sizes of the tables: diff_code, v17_abcd_constellation, and the      *)
(* constellation of a symbol of the given number of bits.                   *)
(***************************************************************************)
DiffCodeSize == Len(diff_code)
AbcdSize == 4
ConstellationSize(bits_per_symbol) == Pow2(bits_per_symbol + 1)

\* A baud getbaud returned is zero or an entry of the table it names.
InTable(pt) ==
    \/ pt = zero
    \/ pt[1] = "v17_abcd_constellation" /\ pt[2] \in 0..(AbcdSize - 1)
    \/ pt[1] = s.constellation /\ pt[2] \in 0..(ConstellationSize(s.bits_per_symbol) - 1)

(***************************************************************************)
(* diff_and_convolutional_encode at every bit rate, for every diff in 0..3, *)
(* convolution in 0..7 and symbol of bits_per_symbol bits: the lookup in    *)
(* diff_code is inside the table, the new diff is in 0..3, the new          *)
(* convolution in 0..7 and the index inside the constellation of the rate.  *)
(***************************************************************************)
EncodeInBounds ==
    \A bit_rate \in BitRates :
        LET bits_per_symbol == BitsPerSymbol(bit_rate)
        IN  /\ bits_per_symbol \in {3, 4, 5, 6}
            /\ \A diff \in 0..3, convolution \in 0..7,
                  q \in 0..(Pow2(bits_per_symbol) - 1) :
                   LET e == diff_and_convolutional_encode(diff, convolution, q)
                   IN  /\ BitOr((q % 4) * 4, diff) \in 0..(DiffCodeSize - 1)
                       /\ e.diff \in 0..3
                       /\ e.convolution \in 0..7
                       /\ e.index \in 0..(ConstellationSize(bits_per_symbol) - 1)

(***************************************************************************)
(* C20: in every state bits_per_symbol is in {3, 4, 5, 6}, diff in 0..3,    *)
(* convolution in 0..7 and constellation_state in 0..3, and every baud      *)
(* getbaud returned was taken from inside its table; and                    *)
(* diff_and_convolutional_encode keeps these ranges and returns an index in *)
(* 0 .. 2^(bits_per_symbol + 1) - 1 at every bit rate.                      *)
(***************************************************************************)
C20_EncoderBounds ==
    /\ s.bits_per_symbol \in {3, 4, 5, 6}
    /\ s.diff \in 0..3
    /\ s.convolution \in 0..7
    /\ s.constellation_state \in 0..3
    /\ \A i \in 1..V17_TX_FILTER_STEPS : InTable(h.recent[i])
    /\ EncodeInBounds

C20_Witness ==
    /\ s.diff = 3
    /\ s.convolution >= 4
    /\ h.nb["bridge"] > 0
    /\ h.recent[V17_TX_FILTER_STEPS][1] = s.constellation
    /\ h.recent[V17_TX_FILTER_STEPS][2] = ConstellationSize(s.bits_per_symbol) - 1

====
